---------------------------- MODULE Spec2Model ----------------------------
(***************************************************************************)
(* A model of dso-database-table-def-anonymizer (src/main.py): one run of  *)
(* the command-line tool, from argument parsing to process exit.           *)
(*                                                                         *)
(* File contents are sequences of byte tokens, texts are sequences of      *)
(* character tokens.  A pattern is an ordered alternation of literals,     *)
(* matched case-insensitively, or a pattern that does not compile.         *)
(***************************************************************************)
EXTENDS Integers, Sequences, FiniteSets

VARIABLES
    pc,                     \* position of the run in main / anonymize_table_definition
    argv,                   \* what parse_args returned: "unparsed", "ok", "empty_path"
    input_file,             \* bytes of the file at the input path, or NoFile
    column_name_pattern,    \* args.column_name_pattern
    column_prefix,          \* args.column_prefix
    encoding_arg,           \* args.encoding, as given on the command line
    encoding,               \* the local variable `encoding` (reassigned by detection)
    rawdata,                \* the local `rawdata`, or Unbound
    read_encoding,          \* encoding= passed to open(input_file, "r"), or Unset
    write_encoding,         \* encoding= passed to open(output_file, "w"), or Unset
    table_definition,       \* the local `table_definition`, or Unbound
    anonymized_definition,  \* the local `anonymized_definition`, or Unbound
    column_count,           \* the closure counter `column_count`, or Unbound
    out_file,               \* bytes of the file at the output path, or Untouched
    handles,                \* the file objects currently open
    exc,                    \* the exception in flight or handled, or NoExc
    log,                    \* the records emitted through logging
    exit_status             \* the process exit status, or Running

vars == <<pc, argv, input_file, column_name_pattern, column_prefix,
          encoding_arg, encoding, rawdata, read_encoding, write_encoding,
          table_definition, anonymized_definition, column_count, out_file,
          handles, exc, log, exit_status>>

-----------------------------------------------------------------------------
(* Bounds and input domains *)

MaxLen == 3

\* A value that may be absent: None, or Some(v) with Val(Some(v)) = v.
None == <<>>
Some(v) == <<v>>
Val(o) == o[1]

NoFile == None          \* no file exists at the path
Untouched == None       \* the output path has not been created or modified
Unbound == None         \* a local variable not yet assigned
Running == None         \* the process has not exited
Unset == "Unset"        \* an encoding name not yet assigned or passed
NoExc == [cls |-> "none", site |-> "none"]
NoneEncoding == "None"  \* Python's None as chardet's result

\* "BAD" is a byte no codec of the model decodes; "REPL" is U+FFFD.
ByteAlphabet == {"a", "1", "LF", "CR", "BAD"}

SeqsUpTo(S, n) == UNION {[1..k -> S] : k \in 0..n}

FileContents == {Some(b) : b \in SeqsUpTo(ByteAlphabet, MaxLen)}

\* os.linesep of the platform the run is on (POSIX)
os_linesep == <<"LF">>

\* --column_name_pattern: "(" (does not compile), "a1|A", "\n", "11|"
PatInvalid == [valid |-> FALSE, alts |-> <<>>]
PatA1OrA == [valid |-> TRUE, alts |-> << <<"a", "1">>, <<"A">> >>]
PatNewline == [valid |-> TRUE, alts |-> << <<"LF">> >>]
Pat11OrEmpty == [valid |-> TRUE, alts |-> << <<"1", "1">>, <<>> >>]
Patterns == {PatInvalid, PatA1OrA, PatNewline, Pat11OrEmpty}

\* --column_prefix: "a", "c_"
Prefixes == {<<"a">>, <<"c", "_">>}

EncodingArgs == {"utf-8", "ascii", "Auto", "bogus"}
KnownCodecs == {"utf-8", "ascii"}

-----------------------------------------------------------------------------
(* str.lower() *)

LowerChar(c) == IF c = "A" THEN "a" ELSE IF c = "B" THEN "b" ELSE c

LowerName(s) == IF s \in {"Auto", "AUTO", "auto"} THEN "auto" ELSE s

-----------------------------------------------------------------------------
(* The regular-expression engine as re.sub drives it (flags=re.IGNORECASE) *)

\* Does literal `lit` match `text` at 0-based offset `pos`, ignoring case?
LitMatchesAt(text, pos, lit) ==
    /\ pos + Len(lit) <= Len(text)
    /\ \A i \in 1..Len(lit) : LowerChar(text[pos + i]) = LowerChar(lit[i])

\* Length of the match the engine reports at `pos`: the first alternative, in
\* order, that matches (skipping empty matches when the engine must advance);
\* -1 when none does.
RECURSIVE MatchLenFrom(_, _, _, _, _)
MatchLenFrom(text, pos, alts, nonEmpty, j) ==
    IF j > Len(alts) THEN -1
    ELSE IF (~(nonEmpty /\ Len(alts[j]) = 0)) /\ LitMatchesAt(text, pos, alts[j])
         THEN Len(alts[j])
         ELSE MatchLenFrom(text, pos, alts, nonEmpty, j + 1)

MatchLenAt(text, pos, alts, nonEmpty) == MatchLenFrom(text, pos, alts, nonEmpty, 1)

\* The leftmost match at or after `from`; an empty match at `from` itself is
\* refused when the previous match was empty (must_advance).  NoMatch if none.
NoMatch == [start |-> -1, len |-> -1]

RECURSIVE Search(_, _, _, _, _)
Search(text, from, s, alts, mustAdvance) ==
    IF s > Len(text) THEN NoMatch
    ELSE LET l == MatchLenAt(text, s, alts, mustAdvance /\ s = from)
         IN  IF l >= 0 THEN [start |-> s, len |-> l]
             ELSE Search(text, from, s + 1, alts, mustAdvance)

\* The non-overlapping matches in scan order, as <<[start, len], ...>>.
RECURSIVE FindIterFrom(_, _, _, _)
FindIterFrom(text, pos, alts, mustAdvance) ==
    LET m == Search(text, pos, pos, alts, mustAdvance)
    IN  IF m = NoMatch THEN <<>>
        ELSE <<m>> \o FindIterFrom(text, m.start + m.len, alts, m.len = 0)

FindIter(text, alts) == FindIterFrom(text, 0, alts, FALSE)

-----------------------------------------------------------------------------
(* f"{column_prefix}{column_count}" *)

Digit(d) == CASE d = 0 -> "0" [] d = 1 -> "1" [] d = 2 -> "2" [] d = 3 -> "3"
              [] d = 4 -> "4" [] d = 5 -> "5" [] d = 6 -> "6" [] d = 7 -> "7"
              [] d = 8 -> "8" [] d = 9 -> "9"

RECURSIVE Decimal(_)
Decimal(n) == IF n < 10 THEN <<Digit(n)>> ELSE Decimal(n \div 10) \o <<Digit(n % 10)>>

\* a callback that leaves the counter out of the replacement
PrefixOnlyColumnName(prefix, count) ==
    [replacement |-> prefix, count |-> count + 1]

\* a callback that never increments the counter
NoIncrementColumnName(prefix, count) ==
    [replacement |-> prefix \o Decimal(count), count |-> count]

\* replace_column_name: the replacement text and the counter after the call.
replace_column_name(prefix, count) ==
    [replacement |-> prefix \o Decimal(count), count |-> count + 1]

\* text[a:b] with 0-based offsets
Slice(text, a, b) == SubSeq(text, a + 1, b)

\* re.sub: copy the text before each match, call the callback for the match,
\* then copy the tail.  `i` is the offset copied up to, `k` the next match.
RECURSIVE SubFrom(_, _, _, _, _, _)
SubFrom(text, ms, k, i, prefix, count) ==
    IF k > Len(ms) THEN [out |-> Slice(text, i, Len(text)), count |-> count]
    ELSE LET r == replace_column_name(prefix, count)
             rest == SubFrom(text, ms, k + 1, ms[k].start + ms[k].len, prefix, r.count)
         IN  [out |-> Slice(text, i, ms[k].start) \o r.replacement \o rest.out,
              count |-> rest.count]

\* the result of re.sub dropped: the text goes on unchanged
DiscardedReSub(text, pat, prefix) == [out |-> text, count |-> 1]

ReSub(text, pat, prefix) == SubFrom(text, FindIter(text, pat.alts), 1, 0, prefix, 1)

-----------------------------------------------------------------------------
(* Text-mode file I/O: open(..., "r", encoding=, errors='replace') and     *)
(* open(..., "w", encoding=)                                               *)

\* Read in text mode: undecodable bytes become U+FFFD and, with the default
\* newline=None, "\r\n" and "\r" are both translated to "\n".
RECURSIVE DecodeFrom(_, _)
DecodeFrom(bytes, i) ==
    IF i > Len(bytes) THEN <<>>
    ELSE IF bytes[i] = "CR"
         THEN <<"LF">> \o DecodeFrom(bytes, IF i < Len(bytes) /\ bytes[i + 1] = "LF"
                                            THEN i + 2 ELSE i + 1)
         ELSE IF bytes[i] = "BAD"
              THEN <<"REPL">> \o DecodeFrom(bytes, i + 1)
              ELSE <<bytes[i]>> \o DecodeFrom(bytes, i + 1)

Decode(bytes, enc) == DecodeFrom(bytes, 1)

\* U+FFFD has no ASCII encoding (strict errors on write).
CanEncode(text, enc) ==
    \A i \in 1..Len(text) : text[i] = "REPL" => enc = "utf-8"

\* a writer that ends every line with "\r\n"
CrLfEncodeChar(c, enc, linesep) ==
    IF c = "LF" THEN <<"CR", "LF">>
    ELSE IF c = "REPL" THEN <<"EF", "BF", "BD">>
    ELSE <<c>>

\* Write in text mode: "\n" is written as os.linesep, U+FFFD as its UTF-8 bytes.
EncodeChar(c, enc, linesep) ==
    IF c = "LF" THEN linesep
    ELSE IF c = "REPL" THEN <<"EF", "BF", "BD">>
    ELSE <<c>>

RECURSIVE EncodeFrom(_, _, _, _)
EncodeFrom(text, i, enc, linesep) ==
    IF i > Len(text) THEN <<>>
    ELSE EncodeChar(text[i], enc, linesep) \o EncodeFrom(text, i + 1, enc, linesep)

Encode(text, enc, linesep) == EncodeFrom(text, 1, enc, linesep)

IsPrefixOf(p, s) == Len(p) <= Len(s) /\ SubSeq(s, 1, Len(p)) = p

\* What an I/O error during the write can leave in the file: none, part
\* (represented by the first half) or all of the bytes.
PartialWrites(s) == {SubSeq(s, 1, n) : n \in {0, Len(s) \div 2, Len(s)}}

\* chardet.detect(rawdata)['encoding']: None for empty data, otherwise a guess
\* (or None); never "ascii" for data holding a non-ASCII byte.
DetectResults(bytes) ==
    IF Len(bytes) = 0 THEN {NoneEncoding}
    ELSE {NoneEncoding, "utf-8"}
         \cup (IF \E i \in 1..Len(bytes) : bytes[i] = "BAD" THEN {} ELSE {"ascii"})

\* a file object that is never closed
LeakingWithExit(hs, h) == hs

\* Leaving a `with` block closes its file object, on return and on raise.

WithExit(hs, h) == hs \ {h}

-----------------------------------------------------------------------------
(* The except clauses of anonymize_table_definition, in order *)

IsSubclass(cls, base) ==
    \/ cls = base
    \/ base = "Exception"
    \/ base = "OSError" /\ cls \in {"FileNotFoundError", "PermissionError"}
    \/ base = "ValueError" /\ cls = "UnicodeEncodeError"

ExceptClauses == <<"FileNotFoundError", "OSError", "re.error", "ValueError", "Exception">>

\* The first clause whose class the exception is an instance of.
Caught(cls) ==
    CHOOSE k \in 1..Len(ExceptClauses) :
        /\ IsSubclass(cls, ExceptClauses[k])
        /\ \A j \in 1..(k - 1) : ~IsSubclass(cls, ExceptClauses[j])

Info(msg, arg) == [level |-> "INFO", msg |-> msg, arg |-> arg]
Error(msg, arg) == [level |-> "ERROR", msg |-> msg, arg |-> arg]

-----------------------------------------------------------------------------
(* Initial state: the process has started, nothing has been parsed *)

Init ==
    /\ pc = "start"
    /\ argv = "unparsed"
    /\ input_file \in FileContents \cup {NoFile}
    /\ column_name_pattern \in Patterns
    /\ column_prefix \in Prefixes
    /\ encoding_arg \in EncodingArgs
    /\ encoding = Unset
    /\ rawdata = Unbound
    /\ read_encoding = Unset
    /\ write_encoding = Unset
    /\ table_definition = Unbound
    /\ anonymized_definition = Unbound
    /\ column_count = Unbound
    /\ out_file = Untouched
    /\ handles = {}
    /\ exc = NoExc
    /\ log = <<>>
    /\ exit_status = Running

inputs == <<input_file, column_name_pattern, column_prefix, encoding_arg>>
locals == <<encoding, rawdata, read_encoding, write_encoding, table_definition,
            anonymized_definition, column_count>>

-----------------------------------------------------------------------------
(* main *)

\* parser.parse_args() with a positional argument missing: argparse prints the
\* usage message and calls sys.exit(2).
ParseArgsUsageError ==
    /\ pc = "start"
    /\ pc' = "done"
    /\ exit_status' = Some(2)
    /\ UNCHANGED <<argv, inputs, locals, out_file, handles, exc, log>>

\* parser.parse_args() returns; a path may be the empty string.
ParseArgs ==
    /\ pc = "start"
    /\ \E a \in {"ok", "empty_path"} : argv' = a
    /\ pc' = "check_args"
    /\ UNCHANGED <<inputs, locals, out_file, handles, exc, log, exit_status>>

\* if not args.input_file or not args.output_file: ... sys.exit(1)
RejectEmptyPaths ==
    /\ pc = "check_args"
    /\ argv = "empty_path"
    /\ log' = Append(log, Error("paths_missing", ""))
    /\ pc' = "done"
    /\ exit_status' = Some(1)
    /\ UNCHANGED <<argv, inputs, locals, out_file, handles, exc>>

\* anonymize_table_definition(args.input_file, ..., args.encoding)
CallAnonymize ==
    /\ pc = "check_args"
    /\ argv = "ok"
    /\ encoding' = encoding_arg
    /\ pc' = "resolve"
    /\ UNCHANGED <<argv, inputs, rawdata, read_encoding, write_encoding,
                   table_definition, anonymized_definition, column_count,
                   out_file, handles, exc, log, exit_status>>

-----------------------------------------------------------------------------
(* anonymize_table_definition: the try block *)

\* raise: control leaves the try block for the except clauses.
Raise(cls, site) ==
    /\ exc' = [cls |-> cls, site |-> site]
    /\ pc' = "except"

\* if encoding.lower() == 'auto':
ResolveEncoding ==
    /\ pc = "resolve"
    /\ pc' = IF LowerName(encoding) = "auto" THEN "detect_open" ELSE "read_open"
    /\ UNCHANGED <<argv, inputs, locals, out_file, handles, exc, log, exit_status>>

\* with open(input_file, 'rb') as f:
DetectOpen ==
    /\ pc = "detect_open"
    /\ input_file # NoFile
    /\ handles' = handles \cup {"f"}
    /\ pc' = "detect_body"
    /\ UNCHANGED <<argv, inputs, locals, out_file, exc, log, exit_status>>

DetectOpenFail ==
    /\ pc = "detect_open"
    /\ \E cls \in (IF input_file = NoFile THEN {"FileNotFoundError"} ELSE {"PermissionError"}) :
          Raise(cls, "detect_open")
    /\ UNCHANGED <<argv, inputs, locals, out_file, handles, log, exit_status>>

\* detection without the `if encoding is None` check
DetectBodyUnchecked ==
    /\ pc = "detect_body"
    /\ rawdata' = input_file
    /\ \E enc \in DetectResults(Val(input_file)) :
          /\ encoding' = enc
          /\ log' = Append(log, Info("detected", enc))
    /\ pc' = "read_open"
    /\ handles' = WithExit(handles, "f")
    /\ UNCHANGED <<argv, inputs, read_encoding, write_encoding, table_definition,
                   anonymized_definition, column_count, out_file, exc, exit_status>>

\* rawdata = f.read(); result = chardet.detect(rawdata); encoding = result['encoding'];
\* logging.info(...); if encoding is None: raise ValueError(...)
DetectBody ==
    /\ pc = "detect_body"
    /\ rawdata' = input_file
    /\ \E enc \in DetectResults(Val(input_file)) :
          /\ encoding' = enc
          /\ log' = Append(log, Info("detected", enc))
          /\ IF enc = NoneEncoding
             THEN Raise("ValueError", "detect_body")
             ELSE pc' = "read_open" /\ exc' = exc
    /\ handles' = WithExit(handles, "f")
    /\ UNCHANGED <<argv, inputs, read_encoding, write_encoding, table_definition,
                   anonymized_definition, column_count, out_file, exit_status>>

\* f.read() fails
DetectBodyFail ==
    /\ pc = "detect_body"
    /\ Raise("PermissionError", "detect_body")
    /\ handles' = WithExit(handles, "f")
    /\ UNCHANGED <<argv, inputs, locals, out_file, log, exit_status>>

\* input and output opened in one `with` statement
ReadOpenWithOutput ==
    /\ pc = "read_open"
    /\ input_file # NoFile
    /\ encoding \in KnownCodecs
    /\ read_encoding' = encoding
    /\ out_file' = Some(<<>>)
    /\ handles' = handles \cup {"infile"}
    /\ pc' = "read_body"
    /\ UNCHANGED <<argv, inputs, encoding, rawdata, write_encoding, table_definition,
                   anonymized_definition, column_count, exc, log, exit_status>>

\* with open(input_file, "r", encoding=encoding, errors='replace') as infile:
ReadOpen ==
    /\ pc = "read_open"
    /\ input_file # NoFile
    /\ encoding \in KnownCodecs
    /\ read_encoding' = encoding
    /\ handles' = handles \cup {"infile"}
    /\ pc' = "read_body"
    /\ UNCHANGED <<argv, inputs, encoding, rawdata, write_encoding, table_definition,
                   anonymized_definition, column_count, out_file, exc, log, exit_status>>

\* open() fails: the path does not exist, or is unreadable, or the codec is unknown
ReadOpenFail ==
    /\ pc = "read_open"
    /\ \E cls \in (IF input_file = NoFile THEN {"FileNotFoundError"}
                   ELSE {"PermissionError"}
                        \cup (IF encoding \in KnownCodecs THEN {} ELSE {"LookupError"})) :
          Raise(cls, "read_open")
    /\ read_encoding' = encoding
    /\ UNCHANGED <<argv, inputs, encoding, rawdata, write_encoding, table_definition,
                   anonymized_definition, column_count, out_file, handles, log,
                   exit_status>>

\* table_definition = infile.read()
ReadBody ==
    /\ pc = "read_body"
    /\ table_definition' = Some(Decode(Val(input_file), encoding))
    /\ handles' = WithExit(handles, "infile")
    /\ pc' = "substitute"
    /\ UNCHANGED <<argv, inputs, encoding, rawdata, read_encoding, write_encoding,
                   anonymized_definition, column_count, out_file, exc, log, exit_status>>

\* infile.read() fails
ReadBodyFail ==
    /\ pc = "read_body"
    /\ Raise("PermissionError", "read_body")
    /\ handles' = WithExit(handles, "infile")
    /\ UNCHANGED <<argv, inputs, locals, out_file, log, exit_status>>

\* column_count = 1; anonymized_definition = re.sub(column_name_pattern,
\*     replace_column_name, table_definition, flags=re.IGNORECASE)
Substitute ==
    /\ pc = "substitute"
    /\ column_name_pattern.valid
    /\ LET r == ReSub(Val(table_definition), column_name_pattern, column_prefix)
       IN  /\ anonymized_definition' = Some(r.out)
           /\ column_count' = Some(r.count)
    /\ pc' = "write_open"
    /\ UNCHANGED <<argv, inputs, encoding, rawdata, read_encoding, write_encoding,
                   table_definition, out_file, handles, exc, log, exit_status>>

\* re.sub cannot compile the pattern: re.error before any match is attempted
SubstituteFail ==
    /\ pc = "substitute"
    /\ ~column_name_pattern.valid
    /\ column_count' = Some(1)
    /\ Raise("re.error", "substitute")
    /\ UNCHANGED <<argv, inputs, encoding, rawdata, read_encoding, write_encoding,
                   table_definition, anonymized_definition, out_file, handles, log,
                   exit_status>>

\* with open(output_file, "w", encoding=encoding) as outfile:  (creates or truncates)
WriteOpen ==
    /\ pc = "write_open"
    /\ write_encoding' = encoding
    /\ out_file' = Some(<<>>)
    /\ handles' = handles \cup {"outfile"}
    /\ pc' = "write_body"
    /\ UNCHANGED <<argv, inputs, encoding, rawdata, read_encoding, table_definition,
                   anonymized_definition, column_count, exc, log, exit_status>>

\* open() fails: the output directory does not exist, or the path is not writable
WriteOpenFail ==
    /\ pc = "write_open"
    /\ write_encoding' = encoding
    /\ \E cls \in {"FileNotFoundError", "PermissionError"} : Raise(cls, "write_open")
    /\ UNCHANGED <<argv, inputs, encoding, rawdata, read_encoding, table_definition,
                   anonymized_definition, column_count, out_file, handles, log,
                   exit_status>>

\* outfile.write(anonymized_definition), flushed and closed on leaving the block
WriteBody ==
    /\ pc = "write_body"
    /\ CanEncode(Val(anonymized_definition), encoding)
    /\ out_file' = Some(Encode(Val(anonymized_definition), encoding, os_linesep))
    /\ handles' = WithExit(handles, "outfile")
    /\ pc' = "log_success"
    /\ UNCHANGED <<argv, inputs, locals, exc, log, exit_status>>

\* the write fails: a character the codec cannot encode (nothing is written), or
\* an I/O error after some of the bytes reached the file
WriteBodyFail ==
    /\ pc = "write_body"
    /\ \/ /\ ~CanEncode(Val(anonymized_definition), encoding)
          /\ Raise("UnicodeEncodeError", "write_body")
          /\ out_file' = out_file
       \/ /\ CanEncode(Val(anonymized_definition), encoding)
          /\ Raise("PermissionError", "write_body")
          /\ \E part \in PartialWrites(Encode(Val(anonymized_definition), encoding, os_linesep)) :
                out_file' = Some(part)
    /\ handles' = WithExit(handles, "outfile")
    /\ UNCHANGED <<argv, inputs, locals, log, exit_status>>

\* logging.info(f"Anonymized table definition written to {output_file}"); the
\* function returns, main returns, the interpreter exits with status 0
LogSuccess ==
    /\ pc = "log_success"
    /\ log' = Append(log, Info("written", ""))
    /\ pc' = "done"
    /\ exit_status' = Some(0)
    /\ UNCHANGED <<argv, inputs, locals, out_file, handles, exc>>

-----------------------------------------------------------------------------
(* anonymize_table_definition: the except clauses, each ending in sys.exit(1) *)

\* except FileNotFoundError: "Error: Input file '...' not found."
HandleFileNotFoundError ==
    /\ pc = "except"
    /\ Caught(exc.cls) = 1
    /\ log' = Append(log, Error("input_not_found", exc.cls))
    /\ pc' = "done"
    /\ exit_status' = Some(1)
    /\ UNCHANGED <<argv, inputs, locals, out_file, handles, exc>>

\* an except clause that logs and falls off the end of the function
HandleIOErrorNoExit ==
    /\ pc = "except"
    /\ Caught(exc.cls) = 2
    /\ log' = Append(log, Error("io_error", exc.cls))
    /\ pc' = "done"
    /\ exit_status' = Some(0)
    /\ UNCHANGED <<argv, inputs, locals, out_file, handles, exc>>

\* except IOError as e: "IOError: ..."
HandleIOError ==
    /\ pc = "except"
    /\ Caught(exc.cls) = 2
    /\ log' = Append(log, Error("io_error", exc.cls))
    /\ pc' = "done"
    /\ exit_status' = Some(1)
    /\ UNCHANGED <<argv, inputs, locals, out_file, handles, exc>>

\* except re.error as e: "Regex Error: Invalid regular expression: ..."
HandleReError ==
    /\ pc = "except"
    /\ Caught(exc.cls) = 3
    /\ log' = Append(log, Error("regex_error", exc.cls))
    /\ pc' = "done"
    /\ exit_status' = Some(1)
    /\ UNCHANGED <<argv, inputs, locals, out_file, handles, exc>>

\* except ValueError as e: "ValueError: ..."
HandleValueError ==
    /\ pc = "except"
    /\ Caught(exc.cls) = 4
    /\ log' = Append(log, Error("value_error", exc.cls))
    /\ pc' = "done"
    /\ exit_status' = Some(1)
    /\ UNCHANGED <<argv, inputs, locals, out_file, handles, exc>>

\* except Exception as e: "An unexpected error occurred: ..."
HandleException ==
    /\ pc = "except"
    /\ Caught(exc.cls) = 5
    /\ log' = Append(log, Error("unexpected", exc.cls))
    /\ pc' = "done"
    /\ exit_status' = Some(1)
    /\ UNCHANGED <<argv, inputs, locals, out_file, handles, exc>>

-----------------------------------------------------------------------------

Next ==
    \/ ParseArgsUsageError
    \/ ParseArgs
    \/ RejectEmptyPaths
    \/ CallAnonymize
    \/ ResolveEncoding
    \/ DetectOpen
    \/ DetectOpenFail
    \/ DetectBody
    \/ DetectBodyFail
    \/ ReadOpen
    \/ ReadOpenFail
    \/ ReadBody
    \/ ReadBodyFail
    \/ Substitute
    \/ SubstituteFail
    \/ WriteOpen
    \/ WriteOpenFail
    \/ WriteBody
    \/ WriteBodyFail
    \/ LogSuccess
    \/ HandleFileNotFoundError
    \/ HandleIOError
    \/ HandleReError
    \/ HandleValueError
    \/ HandleException

Spec == Init /\ [][Next]_vars

-----------------------------------------------------------------------------
(* Vocabulary of the properties *)

Exited(n) == pc = "done" /\ exit_status = Some(n)

Logged(msg) == \E i \in 1..Len(log) : log[i].msg = msg

IsAuto == LowerName(encoding_arg) = "auto"

Substituted == anonymized_definition # Unbound

\* The placeholder the k-th match is to be replaced with.
Placeholder(prefix, k) == prefix \o Decimal(k)

\* How far the text after the first k-1 matches has moved in the output.
RECURSIVE ShiftBefore(_, _, _)
ShiftBefore(ms, prefix, k) ==
    IF k <= 1 THEN 0
    ELSE ShiftBefore(ms, prefix, k - 1)
         + Len(Placeholder(prefix, k - 1)) - ms[k - 1].len

\* Offsets in the output of the k-th placeholder (k in 1..Len(ms)).
OutStart(ms, prefix, k) == ms[k].start + ShiftBefore(ms, prefix, k)
OutEnd(ms, prefix, k) == OutStart(ms, prefix, k) + Len(Placeholder(prefix, k))

\* The k-th unmatched span (k in 0..Len(ms)): before the first match, between
\* two matches, after the last; in the text and in the output.
GapFrom(ms, k) == IF k = 0 THEN 0 ELSE ms[k].start + ms[k].len
GapTo(text, ms, k) == IF k = Len(ms) THEN Len(text) ELSE ms[k + 1].start
OutGapFrom(ms, prefix, k) == IF k = 0 THEN 0 ELSE OutEnd(ms, prefix, k)
OutGapTo(out, ms, prefix, k) ==
    IF k = Len(ms) THEN Len(out) ELSE OutStart(ms, prefix, k + 1)

PlaceholdersInPlace(out, ms, prefix) ==
    \A k \in 1..Len(ms) :
        /\ OutEnd(ms, prefix, k) <= Len(out)
        /\ Slice(out, OutStart(ms, prefix, k), OutEnd(ms, prefix, k))
               = Placeholder(prefix, k)

GapsUnchanged(text, out, ms, prefix) ==
    \A k \in 0..Len(ms) :
        /\ OutGapTo(out, ms, prefix, k) <= Len(out)
        /\ Slice(out, OutGapFrom(ms, prefix, k), OutGapTo(out, ms, prefix, k))
               = Slice(text, GapFrom(ms, k), GapTo(text, ms, k))

\* Number of offsets at which `p` occurs in `s`.
Occurrences(s, p) ==
    Cardinality({i \in 0..(Len(s) - Len(p)) : Slice(s, i, i + Len(p)) = p})

\* The matches of the run's pattern in the text it read.
RunMatches == FindIter(Val(table_definition), column_name_pattern.alts)

-----------------------------------------------------------------------------
(* Substitution pass *)

\* C1: once the substitution pass has run, the k-th non-overlapping match in
\* scan order has been replaced by the prefix followed by the decimal form of
\* k, counting from 1 in steps of 1 whatever was matched, every unmatched span
\* of the text is unchanged, and with zero matches the output is the input.
C1_KthMatchReplacedByPrefixK ==
    Substituted =>
        LET text == Val(table_definition)
            out == Val(anonymized_definition)
            ms == RunMatches
        IN  /\ Val(column_count) = Len(ms) + 1
            /\ Len(out) = Len(text) + ShiftBefore(ms, column_prefix, Len(ms) + 1)
            /\ PlaceholdersInPlace(out, ms, column_prefix)
            /\ GapsUnchanged(text, out, ms, column_prefix)
            /\ (Len(ms) = 0 => out = text)

\* Two matches of different lengths have been replaced.
C1_Witness ==
    /\ Substituted
    /\ Len(RunMatches) >= 2
    /\ RunMatches[1].len # RunMatches[2].len
    /\ Len(Val(anonymized_definition)) # Len(Val(table_definition))

\* C2 as stated: with N >= 1 matches the output holds exactly one occurrence
\* of <prefix><k> for each k in 1..N, at the place of the k-th match, and all
\* other text is unchanged.
C2_ExactlyOneOccurrencePerMatch ==
    (Substituted /\ Len(RunMatches) >= 1) =>
        LET text == Val(table_definition)
            out == Val(anonymized_definition)
            ms == RunMatches
        IN  /\ PlaceholdersInPlace(out, ms, column_prefix)
            /\ GapsUnchanged(text, out, ms, column_prefix)
            /\ \A k \in 1..Len(ms) :
                   Occurrences(out, Placeholder(column_prefix, k)) = 1

\* C2 amended: with N >= 1 matches, N placeholders have been inserted, the
\* k-th where the k-th match was, so <prefix><k> occurs at least once for each
\* k in 1..N (more often when unmatched text already holds it), and all other
\* text is unchanged.
C2_PlaceholderAtEachMatch ==
    (Substituted /\ Len(RunMatches) >= 1) =>
        LET text == Val(table_definition)
            out == Val(anonymized_definition)
            ms == RunMatches
        IN  /\ Val(column_count) - 1 = Len(ms)
            /\ PlaceholdersInPlace(out, ms, column_prefix)
            /\ GapsUnchanged(text, out, ms, column_prefix)
            /\ \A k \in 1..Len(ms) :
                   Occurrences(out, Placeholder(column_prefix, k)) >= 1

\* One match, and its placeholder occurs twice in the output.
C2_Witness ==
    /\ Substituted
    /\ Len(RunMatches) = 1
    /\ Occurrences(Val(anonymized_definition), Placeholder(column_prefix, 1)) = 2

\* Does a match of the second pass cover text the first pass inserted?
PlaceholderMatched(out1, ms1, pat, prefix) ==
    \E m \in {FindIter(out1, pat.alts)[j] : j \in 1..Len(FindIter(out1, pat.alts))} :
        \E k \in 1..Len(ms1) :
            /\ m.len > 0
            /\ m.start < OutEnd(ms1, prefix, k)
            /\ m.start + m.len > OutStart(ms1, prefix, k)

\* C9: the substitution pass is not idempotent: applied to a run's own output
\* it counts again from 1 and rewrites the k-th match it finds there as
\* <prefix><k>, so the output changes again (only) where the pattern matches
\* it, as it does when a placeholder of the first pass matches the pattern.
C9_SecondPassRenumbers ==
    Exited(0) =>
        LET out1 == Val(anonymized_definition)
            ms2 == FindIter(out1, column_name_pattern.alts)
            again == ReSub(out1, column_name_pattern, column_prefix)
        IN  /\ again.count = Len(ms2) + 1
            /\ PlaceholdersInPlace(again.out, ms2, column_prefix)
            /\ GapsUnchanged(out1, again.out, ms2, column_prefix)
            /\ again.out # out1 => Len(ms2) >= 1

\* A run has succeeded whose output the pass would change again.
C9_Witness ==
    /\ Exited(0)
    /\ PlaceholderMatched(Val(anonymized_definition), RunMatches,
                          column_name_pattern, column_prefix)
    /\ ReSub(Val(anonymized_definition), column_name_pattern, column_prefix).out
           # Val(anonymized_definition)

-----------------------------------------------------------------------------
(* Order of the run's effects *)

EarlySites == {"detect_open", "detect_body", "read_open", "read_body", "substitute"}

\* C3: the output file is opened for writing only after the input has been
\* read in full and the substitution pass has completed, so a run that fails
\* before that point (detection, opening or reading the input, compiling the
\* pattern) ends with exit status 1 and the output path untouched.
C3_OutputOpenedAfterSubstitution ==
    /\ (out_file # Untouched \/ "outfile" \in handles \/ write_encoding # Unset)
           => (table_definition # Unbound /\ Substituted /\ "infile" \notin handles)
    /\ (pc = "done" /\ exc.site \in EarlySites)
           => (exit_status = Some(1) /\ out_file = Untouched)

\* The input was read and the pattern then failed to compile.
C3_Witness ==
    /\ pc = "done"
    /\ exc = [cls |-> "re.error", site |-> "substitute"]
    /\ table_definition # Unbound
    /\ out_file = Untouched

\* C4 as stated: every run ends with exit status 0 on success or 1 on any
\* failure, a missing required path argument included; no other status occurs.
C4_ExitStatusZeroOrOne ==
    pc = "done" =>
        \/ exit_status = Some(0) /\ Logged("written")
        \/ exit_status = Some(1) /\ ~Logged("written")

\* C5 as stated: a failure to open or write the output file (permissions,
\* disk full, missing directory) is reported as an I/O error with exit status
\* 1, and the not-found message is logged only when the input file is missing.
C5_OutputFailuresAreIOErrors ==
    pc = "done" =>
        /\ (exc.site \in {"write_open", "write_body"} /\ IsSubclass(exc.cls, "OSError"))
               => (exit_status = Some(1) /\ log[Len(log)].msg = "io_error")
        /\ Logged("input_not_found") => input_file = NoFile

C10_AtMostOneHandleOpen ==
    /\ Cardinality(handles) <= 1
    /\ pc \in {"except", "done", "log_success"} => handles = {}

\* A run exited with status 1 after an error raised inside a `with` block.
C10_Witness ==
    /\ Exited(1)
    /\ exc.site \in {"detect_body", "read_body", "write_body"}
    /\ handles = {}

-----------------------------------------------------------------------------
(* Encoding resolution *)

\* C8: with the auto-detect selector the raw bytes are read and detected
\* before the text is read; a null result fails the run with a ValueError and
\* exit status 1, the text never read and the output untouched; otherwise the
\* detected encoding is logged and used for both the read and the write.  With
\* a concrete selector nothing is detected and that name is used for both.
C8_EncodingResolution ==
    /\ IsAuto =>
           /\ read_encoding # Unset => (rawdata # Unbound /\ encoding # NoneEncoding)
           /\ rawdata # Unbound => \E i \in 1..Len(log) : log[i] = Info("detected", encoding)
           /\ (rawdata # Unbound /\ encoding = NoneEncoding) =>
                  /\ exc = [cls |-> "ValueError", site |-> "detect_body"]
                  /\ read_encoding = Unset
                  /\ table_definition = Unbound
                  /\ write_encoding = Unset
                  /\ out_file = Untouched
                  /\ pc = "done" => (exit_status = Some(1) /\ log[Len(log)].msg = "value_error")
           /\ read_encoding # Unset => read_encoding = encoding
           /\ write_encoding # Unset => (write_encoding = encoding /\ read_encoding = encoding)
    /\ ~IsAuto =>
           /\ rawdata = Unbound
           /\ "f" \notin handles
           /\ ~Logged("detected")
           /\ encoding \in {Unset, encoding_arg}
           /\ read_encoding \in {Unset, encoding_arg}
           /\ write_encoding \in {Unset, encoding_arg}

\* An auto-detected run succeeded, reading and writing in the detected codec.
C8_Witness ==
    /\ IsAuto
    /\ Exited(0)
    /\ encoding # encoding_arg
    /\ read_encoding = encoding
    /\ write_encoding = encoding

-----------------------------------------------------------------------------
(* Bytes of the output file against bytes of the input file *)

\* Byte offset at which the i-th character of the decoded text starts.
RECURSIVE BytePosFrom(_, _, _)
BytePosFrom(bytes, b, i) ==
    IF i = 0 THEN b
    ELSE BytePosFrom(bytes,
                     IF bytes[b + 1] = "CR" /\ b + 1 < Len(bytes) /\ bytes[b + 2] = "LF"
                     THEN b + 2 ELSE b + 1,
                     i - 1)

BytePos(bytes, i) == BytePosFrom(bytes, 0, i)

\* Byte offset in the output file of the j-th character of the written text.
OutBytePos(out, j) == Len(Encode(Slice(out, 0, j), write_encoding, os_linesep))

\* The bytes of the k-th unmatched span, in the input and in the output file.
InGapBytes(k) ==
    Slice(Val(input_file),
          BytePos(Val(input_file), GapFrom(RunMatches, k)),
          BytePos(Val(input_file), GapTo(Val(table_definition), RunMatches, k)))

OutGapBytes(k) ==
    Slice(Val(out_file),
          OutBytePos(Val(anonymized_definition), OutGapFrom(RunMatches, column_prefix, k)),
          OutBytePos(Val(anonymized_definition),
                     OutGapTo(Val(anonymized_definition), RunMatches, column_prefix, k)))

OutPlaceholderBytes(k) ==
    Slice(Val(out_file),
          OutBytePos(Val(anonymized_definition), OutStart(RunMatches, column_prefix, k)),
          OutBytePos(Val(anonymized_definition), OutEnd(RunMatches, column_prefix, k)))

\* Every byte decodes and every line terminator is already "\n".
Canonical(bytes) == \A i \in 1..Len(bytes) : bytes[i] \notin {"BAD", "CR"}

\* C7 as stated: the output file is the input file with only the matched
\* spans replaced: every unmatched byte sequence of the input, line
\* terminators and undecodable bytes included, is unchanged in the output.
C7_UnmatchedBytesUnchanged ==
    Exited(0) => \A k \in 0..Len(RunMatches) : OutGapBytes(k) = InGapBytes(k)

\* C7 amended: every unmatched span of the input is written as the encoding of
\* its decoded text, each matched span as the encoding of its placeholder; the
\* span's bytes are unchanged when all of them decode and its line terminators
\* are "\n" (UTF-8 or ASCII, os.linesep "\n").
C7_UnmatchedTextReencoded ==
    Exited(0) =>
        /\ \A k \in 0..Len(RunMatches) :
               /\ OutGapBytes(k) = Encode(Decode(InGapBytes(k), read_encoding),
                                          write_encoding, os_linesep)
               /\ Canonical(InGapBytes(k)) => OutGapBytes(k) = InGapBytes(k)
        /\ \A k \in 1..Len(RunMatches) :
               OutPlaceholderBytes(k) = Placeholder(column_prefix, k)

\* A successful run with a match, an unmatched span it changed ("\r" or an
\* undecodable byte) and an unmatched span holding "\n" it left alone.
C7_Witness ==
    /\ Exited(0)
    /\ Len(RunMatches) >= 1
    /\ \E k \in 0..Len(RunMatches) : OutGapBytes(k) # InGapBytes(k)
    /\ \E k \in 0..Len(RunMatches) :
           /\ OutGapBytes(k) = InGapBytes(k)
           /\ \E i \in 1..Len(InGapBytes(k)) : InGapBytes(k)[i] = "LF"

=============================================================================
